---- MODULE Spec2Model ----
(***************************************************************************)
(* Model of the expert-system shell: the condition language of             *)
(* src/src/rule.rs (Condition, its Display and FromStr implementations,    *)
(* matches) and the forward-chaining engine (Facts::remember,              *)
(* Facts::step_forward, Facts::deduce) driven by the `test` and `rule`     *)
(* commands of src/src/command.                                            *)
(*                                                                         *)
(* Text is a sequence of one-character strings, so that the parser and    *)
(* the renderer work character by character as the code does.             *)
(***************************************************************************)
EXTENDS Integers, Sequences, FiniteSets, TLC

VARIABLES
    rules,              \* Context.rules : Vec<Rule>
    pc,                 \* position of the shell: idle, inside deduce, done, crashed
    facts,              \* Facts.0 : Vec<String> of the running deduction
    step,               \* deduce's local `step`
    i,                  \* step_forward: index of the rule the for loop is at
    j,                  \* index of the output the `any` iterator is at
    matched,            \* step_forward's local `matched` (result of `any` so far)
    any_rule_matched,   \* step_forward's local `any_rule_matched`
    seed,               \* history: the tokens the run was started with
    cycles,             \* history: number of step_forward calls that returned
    grown,              \* history: number of returned cycles that lengthened facts
    cycleLen,           \* history: Len(facts) when the current cycle started
    tested,             \* history: indices of the rules whose condition matched in this cycle
    text,               \* the condition text handed to the parser
    tree,               \* the Condition the text was produced from (when it was)
    origin,             \* how the input was produced: typed, derived, rendered, built, loaded
    level,              \* grammar level of a derived text
    result,             \* what Condition::from_str returned
    coll,               \* the fact collection handed to Condition::matches
    verdict             \* what Condition::matches returned

vars == <<rules, pc, facts, step, i, j, matched, any_rule_matched, seed,
          cycles, grown, cycleLen, tested, text, tree, origin, level, result,
          coll, verdict>>

engineVars == <<rules, pc, facts, step, i, j, matched, any_rule_matched, seed,
                cycles, grown, cycleLen, tested>>

parseVars == <<text, tree, origin, level, result>>

matchVars == <<coll, verdict>>

-----------------------------------------------------------------------------
(* Bounds of the model *)

MaxRules == 3

MaxSeed == 2

StepCap == 8

MaxText == 5

MaxDerived == 7

MaxNodes == 6

MaxColl == 2

-----------------------------------------------------------------------------
(* Characters *)

\* char::is_alphanumeric() || c == '_'
FactChars == {"a", "b", "c", "f", "t", "1", "2", "3", "4", "5", "6", "_"}

\* char::is_whitespace()
is_whitespace(c) == c = " "

is_fact_char(c) == c \in FactChars

-----------------------------------------------------------------------------
(* enum Condition and its constructors *)

Fact(s) == [tag |-> "Fact", name |-> s]

And(l, r) == [tag |-> "And", lhs |-> l, rhs |-> r]

Or(l, r) == [tag |-> "Or", lhs |-> l, rhs |-> r]

Not(c) == [tag |-> "Not", inner |-> c]

\* Vec::contains / Facts::recall : exact equality with some element
recall(fs, fact) == \E n \in DOMAIN fs : fs[n] = fact

\* matches with `&&` written in the Or arm
RECURSIVE matches_or_typo(_, _)
matches_or_typo(c, fs) ==
    CASE c.tag = "Fact" -> recall(fs, c.name)
      [] c.tag = "And"  -> matches_or_typo(c.lhs, fs) /\ matches_or_typo(c.rhs, fs)
      [] c.tag = "Or"   -> matches_or_typo(c.lhs, fs) /\ matches_or_typo(c.rhs, fs)
      [] c.tag = "Not"  -> ~matches_or_typo(c.inner, fs)

RECURSIVE matches(_, _)
matches(c, fs) ==
    CASE c.tag = "Fact" -> recall(fs, c.name)
      [] c.tag = "And"  -> matches(c.lhs, fs) /\ matches(c.rhs, fs)
      [] c.tag = "Or"   -> matches(c.lhs, fs) \/ matches(c.rhs, fs)
      [] c.tag = "Not"  -> ~matches(c.inner, fs)

\* Display that leaves the parentheses of an And node out
RECURSIVE to_string_bare_and(_)
to_string_bare_and(c) ==
    CASE c.tag = "Fact" -> c.name
      [] c.tag = "And"  -> to_string_bare_and(c.lhs) \o <<" ", "&", " ">>
                                   \o to_string_bare_and(c.rhs)
      [] c.tag = "Or"   -> <<"(">> \o to_string_bare_and(c.lhs) \o <<" ", "|", " ">>
                                   \o to_string_bare_and(c.rhs) \o <<")">>
      [] c.tag = "Not"  -> <<"!">> \o to_string_bare_and(c.inner)

\* impl Display for Condition
RECURSIVE to_string(_)
to_string(c) ==
    CASE c.tag = "Fact" -> c.name
      [] c.tag = "And"  -> <<"(">> \o to_string(c.lhs) \o <<" ", "&", " ">>
                                   \o to_string(c.rhs) \o <<")">>
      [] c.tag = "Or"   -> <<"(">> \o to_string(c.lhs) \o <<" ", "|", " ">>
                                   \o to_string(c.rhs) \o <<")">>
      [] c.tag = "Not"  -> <<"!">> \o to_string(c.inner)

-----------------------------------------------------------------------------
(* The recursive-descent parser.  `chars` is the Peekable<Chars> iterator,  *)
(* modelled as the characters not yet consumed.  A result carries the      *)
(* iterator as the function left it: `rest` after a success, `at` (the     *)
(* input at the point the error was detected) after a failure.             *)

UnexpectedEnd == "Unexpected end of input"

ExpectedFact == "Expected fact"

UnclosedParen == "Expected ')'"

Ok(v, chars) == [ok |-> TRUE, val |-> v, rest |-> chars]

Err(e, chars) == [ok |-> FALSE, err |-> e, at |-> chars]

RECURSIVE skip_whitespace(_)
skip_whitespace(chars) ==
    IF chars # <<>> /\ is_whitespace(Head(chars))
    THEN skip_whitespace(Tail(chars))
    ELSE chars

\* the while loop of parse_fact: the longest run of fact characters
RECURSIVE fact_run(_)
fact_run(chars) ==
    IF chars # <<>> /\ is_fact_char(Head(chars))
    THEN <<Head(chars)>> \o fact_run(Tail(chars))
    ELSE <<>>

parse_fact(chars) ==
    LET obj == fact_run(chars) IN
    IF obj = <<>>
    THEN Err(ExpectedFact, chars)
    ELSE Ok(Fact(obj), SubSeq(chars, Len(obj) + 1, Len(chars)))

\* a closing test that reports the end of input as UnexpectedEnd
close_paren_at_end(rule, chars) ==
    IF chars = <<>> THEN Err(UnexpectedEnd, chars)
    ELSE IF Head(chars) # ")" THEN Err(UnclosedParen, chars)
    ELSE Ok(rule, Tail(chars))

\* the test `chars.next() != Some(')')` of parse_primary
close_paren(rule, chars) ==
    IF chars = <<>> \/ Head(chars) # ")"
    THEN Err(UnclosedParen, chars)
    ELSE Ok(rule, Tail(chars))

RECURSIVE parse_or(_), or_loop(_, _), parse_and(_), and_loop(_, _),
          parse_not(_), parse_primary(_), and_loop_right(_, _)

parse_primary(chars0) ==
    LET chars == skip_whitespace(chars0) IN
    IF chars = <<>>
    THEN Err(UnexpectedEnd, chars)
    ELSE IF Head(chars) = "("
         THEN LET r == parse_or(Tail(chars)) IN
              IF ~r.ok THEN r
              ELSE close_paren(r.val, skip_whitespace(r.rest))
         ELSE parse_fact(chars)

parse_not(chars0) ==
    LET chars == skip_whitespace(chars0) IN
    IF chars # <<>> /\ Head(chars) = "!"
    THEN LET r == parse_not(Tail(chars)) IN
         IF ~r.ok THEN r ELSE Ok(Not(r.val), r.rest)
    ELSE parse_primary(chars)

\* an `&` chain that nests to the right: the rest of the chain becomes
\* the right operand
and_loop_right(lhs, chars) ==
    IF chars # <<>> /\ Head(chars) = "&"
    THEN LET r == parse_and(Tail(chars)) IN
         IF ~r.ok THEN r ELSE Ok(And(lhs, r.val), skip_whitespace(r.rest))
    ELSE Ok(lhs, chars)

\* the while loop of parse_and, entered after skip_whitespace
and_loop(lhs, chars) ==
    IF chars # <<>> /\ Head(chars) = "&"
    THEN LET r == parse_not(Tail(chars)) IN
         IF ~r.ok THEN r
         ELSE and_loop(And(lhs, r.val), skip_whitespace(r.rest))
    ELSE Ok(lhs, chars)

parse_and(chars) ==
    LET l == parse_not(chars) IN
    IF ~l.ok THEN l ELSE and_loop(l.val, skip_whitespace(l.rest))

\* the while loop of parse_or, entered after skip_whitespace
or_loop(lhs, chars) ==
    IF chars # <<>> /\ Head(chars) = "|"
    THEN LET r == parse_and(Tail(chars)) IN
         IF ~r.ok THEN r
         ELSE or_loop(Or(lhs, r.val), skip_whitespace(r.rest))
    ELSE Ok(lhs, chars)

parse_or(chars) ==
    LET l == parse_and(chars) IN
    IF ~l.ok THEN l ELSE or_loop(l.val, skip_whitespace(l.rest))

\* impl FromStr for Condition
from_str(s) == parse_or(s)

-----------------------------------------------------------------------------
(* Rules and working memory *)

\* str::split(sep): the pieces between the separators, empty pieces included
RECURSIVE split(_, _)
split(s, sep) ==
    IF \E n \in DOMAIN s : s[n] = sep
    THEN LET k == CHOOSE n \in DOMAIN s :
                      s[n] = sep /\ \A m \in 1..(n - 1) : s[m] # sep
         IN <<SubSeq(s, 1, k - 1)>> \o split(SubSeq(s, k + 1, Len(s)), sep)
    ELSE <<s>>

\* Context::add_rule: parse the condition, split the outputs, push the rule;
\* a parse error leaves the rule list as it was
add_rule(rs, condition, output) ==
    LET c == from_str(condition) IN
    IF ~c.ok THEN rs
    ELSE Append(rs, [condition |-> c.val, output |-> split(output, ",")])

\* Vec::remove(idx), idx counted from 0
remove_rule(rs, idx) ==
    SubSeq(rs, 1, idx) \o SubSeq(rs, idx + 2, Len(rs))

\* the orders SliceRandom::shuffle can leave the rule list in
Shuffles(rs) ==
    LET n == Len(rs)
        perms == {p \in [1..n -> 1..n] : \A a, b \in 1..n : a # b => p[a] # p[b]}
    IN {[k \in 1..n |-> rs[p[k]]] : p \in perms}

\* Facts::new: a copy of the given names, in order
Facts_new(vec) == [n \in DOMAIN vec |-> vec[n]]

\* test_if that reads working memory without the fact added last
test_if_stale(fs, condition) == matches(condition, SubSeq(fs, 1, Len(fs) - 1))

\* Facts::test_if
test_if(fs, condition) == matches(condition, fs)

\* remember that puts a new fact in front of the others
remember_in_front(fs, fact) ==
    IF recall(fs, fact)
    THEN [facts |-> fs, added |-> FALSE]
    ELSE [facts |-> <<fact>> \o fs, added |-> TRUE]

\* remember that reports a known fact as added
remember_always_added(fs, fact) ==
    IF recall(fs, fact)
    THEN [facts |-> fs, added |-> TRUE]
    ELSE [facts |-> Append(fs, fact), added |-> TRUE]

\* Facts::remember: the new working memory and whether the fact was new
remember(fs, fact) ==
    IF recall(fs, fact)
    THEN [facts |-> fs, added |-> FALSE]
    ELSE [facts |-> Append(fs, fact), added |-> TRUE]

\* `any_rule_matched = matched`: the last matching rule decides
accumulate_assign(any, m) == m

\* `any_rule_matched &= matched`
accumulate_and(any, m) == any /\ m

\* `any_rule_matched |= matched`
accumulate(any, m) == any \/ m

\* `let mut step = 0`
step_init == 0

\* `step += 1`
count_cycle(n) == n + 1

\* a return that counts the last, empty cycle too
on_return_counted(n) == n + 1

\* deduce's last expression: `step` is returned as it stands
on_return(n) == n

\* `rule.output.iter().any(|fact| self.remember(fact))`: remember is called on
\* the outputs in order until one call returns true
RECURSIVE any_remember(_, _)
any_remember(fs, output) ==
    IF output = <<>>
    THEN [facts |-> fs, added |-> FALSE]
    ELSE LET r == remember(fs, Head(output)) IN
         IF r.added THEN r ELSE any_remember(r.facts, Tail(output))

\* the for loop of step_forward over the rules not yet tested
RECURSIVE rule_loop(_, _, _)
rule_loop(fs, rs, any) ==
    IF rs = <<>>
    THEN [facts |-> fs, any |-> any]
    ELSE IF test_if(fs, Head(rs).condition)
         THEN LET r == any_remember(fs, Head(rs).output) IN
              rule_loop(r.facts, Tail(rs), accumulate(any, r.added))
         ELSE rule_loop(fs, Tail(rs), any)

\* Facts::step_forward as a function of the working memory and the rules
step_forward(fs, rs) == rule_loop(fs, rs, FALSE)

\* the while loop of deduce
RECURSIVE deduce_loop(_, _, _)
deduce_loop(fs, rs, n) ==
    LET r == step_forward(fs, rs) IN
    IF r.any
    THEN deduce_loop(r.facts, rs, count_cycle(n))
    ELSE [facts |-> r.facts, step |-> on_return(n)]

\* Facts::deduce as a function: the final working memory and the cycle count
deduce(fs, rs) == deduce_loop(fs, rs, step_init)

-----------------------------------------------------------------------------
(* Inputs of the commands *)

fact(d) == <<"f", "a", "c", "t", d>>

fact1 == fact("1")

fact2 == fact("2")

fact3 == fact("3")

fact4 == fact("4")

fact5 == fact("5")

fact6 == fact("6")

\* `rule add <condition> <output>` lines the user may type
RuleInputs ==
    { <<fact1, fact2>>,
      <<fact2, fact3>>,
      <<fact4, fact5>>,
      <<fact5, fact6>>,
      <<fact3, fact4>>,
      <<fact1, fact2 \o <<",">> \o fact3>>,
      <<<<"!">> \o fact2, fact4>>,
      <<<<"!">> \o fact4, fact4>>,
      <<fact1 \o <<"&">> \o fact4 \o <<"|">> \o fact3, fact6>>,
      <<fact1 \o <<"&">>, fact2>> }

SeedFacts == {fact1}

\* the tokens after `test`
Seeds == UNION {[1..n -> SeedFacts] : n \in 0..MaxSeed}

NoTree == [tag |-> "None"]

NoResult == [ok |-> FALSE, err |-> "not parsed", at |-> <<>>]

NoVerdict == [done |-> FALSE]

-----------------------------------------------------------------------------
(* The shell and the deduction run *)

Init ==
    /\ rules = <<>>
    /\ pc = "idle"
    /\ facts = <<>>
    /\ step = 0
    /\ i = 1
    /\ j = 1
    /\ matched = FALSE
    /\ any_rule_matched = FALSE
    /\ seed = <<>>
    /\ cycles = 0
    /\ grown = 0
    /\ cycleLen = 0
    /\ tested = {}
    /\ text = <<>>
    /\ tree = NoTree
    /\ origin = "none"
    /\ level = "none"
    /\ result = NoResult
    /\ coll = <<>>
    /\ verdict = NoVerdict

runVars == <<facts, step, i, j, matched, any_rule_matched, seed,
             cycles, grown, cycleLen, tested>>

\* handle_rule ["add", rule, output, ..]
RuleAdd ==
    /\ pc = "idle"
    /\ Len(rules) < MaxRules
    /\ \E in \in RuleInputs : rules' = add_rule(rules, in[1], in[2])
    /\ UNCHANGED <<pc, runVars, parseVars, matchVars>>

\* handle_rule ["remove", idx, ..] with idx inside the list
RuleRemove ==
    /\ pc = "idle"
    /\ \E idx \in 0..(Len(rules) - 1) : rules' = remove_rule(rules, idx)
    /\ UNCHANGED <<pc, runVars, parseVars, matchVars>>

\* handle_rule ["remove", idx, ..] with idx past the end: Vec::remove panics
RuleRemovePanic ==
    /\ pc = "idle"
    /\ \E idx \in Len(rules)..MaxRules : pc' = "crashed"
    /\ UNCHANGED <<rules, runVars, parseVars, matchVars>>

\* handle_rule ["shuffle", ..]
RuleShuffle ==
    /\ pc = "idle"
    /\ \E rs \in Shuffles(rules) : rules' = rs
    /\ UNCHANGED <<pc, runVars, parseVars, matchVars>>

\* handle_command ["test", ..]: Facts::new on the tokens, then deduce is entered
\* and calls step_forward for the first time
HandleTest ==
    /\ pc = "idle"
    /\ \E s \in Seeds :
         /\ facts' = Facts_new(s)
         /\ seed' = s
         /\ cycleLen' = Len(s)
    /\ step' = step_init
    /\ i' = 1
    /\ j' = 1
    /\ matched' = FALSE
    /\ any_rule_matched' = FALSE
    /\ cycles' = 0
    /\ grown' = 0
    /\ tested' = {}
    /\ pc' = "rule"
    /\ UNCHANGED <<rules, parseVars, matchVars>>

\* step_forward: `if self.test_if(&rule.condition)` for the next rule
TestRule ==
    /\ pc = "rule"
    /\ i <= Len(rules)
    /\ IF test_if(facts, rules[i].condition)
       THEN /\ pc' = "output"
            /\ j' = 1
            /\ matched' = FALSE
            /\ tested' = tested \cup {i}
            /\ i' = i
       ELSE /\ i' = i + 1
            /\ UNCHANGED <<pc, j, matched, tested>>
    /\ UNCHANGED <<rules, facts, step, any_rule_matched, seed, cycles, grown,
                   cycleLen, parseVars, matchVars>>

\* one step of `rule.output.iter().any(|fact| self.remember(fact))`:
\* the iterator stops at the first remember that returns true
AnyRemember ==
    /\ pc = "output"
    /\ j <= Len(rules[i].output)
    /\ ~matched
    /\ LET r == remember(facts, rules[i].output[j]) IN
         /\ facts' = r.facts
         /\ matched' = r.added
    /\ j' = j + 1
    /\ UNCHANGED <<rules, pc, step, i, any_rule_matched, seed, cycles, grown,
                   cycleLen, tested, parseVars, matchVars>>

\* `any` has returned: `any_rule_matched |= matched`, on to the next rule
AnyReturn ==
    /\ pc = "output"
    /\ (j > Len(rules[i].output) \/ matched)
    /\ any_rule_matched' = accumulate(any_rule_matched, matched)
    /\ i' = i + 1
    /\ j' = 1
    /\ matched' = FALSE
    /\ pc' = "rule"
    /\ UNCHANGED <<rules, facts, step, seed, cycles, grown, cycleLen, tested,
                   parseVars, matchVars>>

CycleGrew == Len(facts) > cycleLen

\* step_forward returned true: deduce counts the cycle and calls it again
DeduceLoop ==
    /\ pc = "rule"
    /\ i > Len(rules)
    /\ any_rule_matched
    /\ step < StepCap
    /\ step' = count_cycle(step)
    /\ cycles' = cycles + 1
    /\ grown' = grown + (IF CycleGrew THEN 1 ELSE 0)
    /\ cycleLen' = Len(facts)
    /\ tested' = {}
    /\ i' = 1
    /\ any_rule_matched' = FALSE
    /\ UNCHANGED <<rules, pc, facts, j, matched, seed, parseVars, matchVars>>

\* step_forward returned false: deduce returns `step`
DeduceReturn ==
    /\ pc = "rule"
    /\ i > Len(rules)
    /\ ~any_rule_matched
    /\ cycles' = cycles + 1
    /\ grown' = grown + (IF CycleGrew THEN 1 ELSE 0)
    /\ step' = on_return(step)
    /\ pc' = "done"
    /\ UNCHANGED <<rules, facts, i, j, matched, any_rule_matched, seed,
                   cycleLen, tested, parseVars, matchVars>>

\* handle_command returns: the Facts of the run are dropped
CommandReturn ==
    /\ pc = "done"
    /\ pc' = "idle"
    /\ facts' = <<>>
    /\ step' = 0
    /\ i' = 1
    /\ j' = 1
    /\ matched' = FALSE
    /\ any_rule_matched' = FALSE
    /\ seed' = <<>>
    /\ cycles' = 0
    /\ grown' = 0
    /\ cycleLen' = 0
    /\ tested' = {}
    /\ UNCHANGED <<rules, parseVars, matchVars>>

DeduceStep == TestRule \/ AnyRemember \/ AnyReturn \/ DeduceLoop \/ DeduceReturn

Next ==
    \/ RuleAdd
    \/ RuleRemove
    \/ RuleRemovePanic
    \/ RuleShuffle
    \/ HandleTest
    \/ TestRule
    \/ AnyRemember
    \/ AnyReturn
    \/ DeduceLoop
    \/ DeduceReturn
    \/ CommandReturn

Spec == Init /\ [][Next]_vars

\* the deduction runs to completion on the calling thread
FairSpec == Spec /\ WF_vars(DeduceStep)

-----------------------------------------------------------------------------
(* The parser on its own: a condition text is typed character by          *)
(* character, or derived by the productions of the grammar together with  *)
(* the tree each production denotes, or rendered from a Condition built   *)
(* with the constructors; then Condition::from_str is applied to it.      *)

TypedChars == {"a", "b", "&", "|", "!", "(", ")", " ", ","}

FactNames == {<<"a">>, <<"b">>, <<"c">>, <<"f", "_", "1">>}

Item(t, c) == [text |-> t, tree |-> c]

\* primary := '(' or ')' | fact
Primaries ==
    {Item(n, Fact(n)) : n \in FactNames}
        \cup {Item(<<"(", "a", "|", "b", ")">>, Or(Fact(<<"a">>), Fact(<<"b">>)))}

\* not := '!' not | primary
NotOperands ==
    Primaries \cup {Item(<<"!">> \o p.text, Not(p.tree)) : p \in Primaries}

\* and := not ( '&' not )*
AndOperands ==
    NotOperands \cup
        {Item(x.text \o <<"&">> \o y.text, And(x.tree, y.tree)) :
            x \in NotOperands, y \in {Item(n, Fact(n)) : n \in FactNames}}

\* an operator, alone or with whitespace around it
Spaced(op) == {<<op>>, <<" ", op, " ">>}

Rank(l) == CASE l = "primary" -> 1 [] l = "not" -> 2 [] l = "and" -> 3 [] l = "or" -> 4

\* operands of the Condition constructors
OperandTrees ==
    {Fact(n) : n \in FactNames} \cup {Not(Fact(n)) : n \in FactNames}
        \cup {And(Fact(<<"a">>), Fact(<<"b">>)), Or(Fact(<<"b">>), Fact(<<"c">>))}

RECURSIVE Nodes(_)
Nodes(c) ==
    CASE c.tag = "Fact" -> 1
      [] c.tag = "Not"  -> 1 + Nodes(c.inner)
      [] OTHER          -> 1 + Nodes(c.lhs) + Nodes(c.rhs)

TypeChar ==
    /\ origin \in {"none", "typed"}
    /\ result = NoResult
    /\ Len(text) < MaxText
    /\ \E c \in TypedChars : text' = Append(text, c)
    /\ origin' = "typed"
    /\ UNCHANGED <<engineVars, matchVars, tree, level, result>>

\* fact
DeriveFact ==
    /\ origin = "none"
    /\ \E n \in FactNames : text' = n /\ tree' = Fact(n)
    /\ origin' = "derived"
    /\ level' = "primary"
    /\ UNCHANGED <<engineVars, matchVars, result>>

Deriving == origin = "derived" /\ result = NoResult

\* primary := '(' or ')'
DeriveParen ==
    /\ Deriving
    /\ Len(text) + 2 <= MaxDerived
    /\ text' = <<"(">> \o text \o <<")">>
    /\ level' = "primary"
    /\ UNCHANGED <<engineVars, matchVars, tree, origin, result>>

\* not := '!' not
DeriveNot ==
    /\ Deriving
    /\ Rank(level) <= Rank("not")
    /\ Len(text) + 1 <= MaxDerived
    /\ text' = <<"!">> \o text
    /\ tree' = Not(tree)
    /\ level' = "not"
    /\ UNCHANGED <<engineVars, matchVars, origin, result>>

\* and := and '&' not
DeriveAnd ==
    /\ Deriving
    /\ Rank(level) <= Rank("and")
    /\ \E x \in NotOperands, op \in Spaced("&") :
         /\ Len(text) + Len(op) + Len(x.text) <= MaxDerived
         /\ text' = text \o op \o x.text
         /\ tree' = And(tree, x.tree)
    /\ level' = "and"
    /\ UNCHANGED <<engineVars, matchVars, origin, result>>

\* or := or '|' and
DeriveOr ==
    /\ Deriving
    /\ \E x \in AndOperands, op \in Spaced("|") :
         /\ Len(text) + Len(op) + Len(x.text) <= MaxDerived
         /\ text' = text \o op \o x.text
         /\ tree' = Or(tree, x.tree)
    /\ level' = "or"
    /\ UNCHANGED <<engineVars, matchVars, origin, result>>

\* whitespace before or after the tokens
DerivePad ==
    /\ Deriving
    /\ Len(text) + 1 <= MaxDerived
    /\ text' \in {<<" ">> \o text, text \o <<" ">>}
    /\ UNCHANGED <<engineVars, matchVars, tree, origin, level, result>>

\* Condition::fact
BuildFact ==
    /\ origin = "none"
    /\ \E n \in FactNames : tree' = Fact(n)
    /\ origin' = "building"
    /\ UNCHANGED <<engineVars, matchVars, text, level, result>>

\* Condition::not
BuildNot ==
    /\ origin = "building"
    /\ Nodes(tree) + 1 <= MaxNodes
    /\ tree' = Not(tree)
    /\ UNCHANGED <<engineVars, matchVars, text, origin, level, result>>

\* Condition::and
BuildAnd ==
    /\ origin = "building"
    /\ \E t \in OperandTrees :
         /\ Nodes(tree) + Nodes(t) + 1 <= MaxNodes
         /\ tree' \in {And(tree, t), And(t, tree)}
    /\ UNCHANGED <<engineVars, matchVars, text, origin, level, result>>

\* Condition::or
BuildOr ==
    /\ origin = "building"
    /\ \E t \in OperandTrees :
         /\ Nodes(tree) + Nodes(t) + 1 <= MaxNodes
         /\ tree' \in {Or(tree, t), Or(t, tree)}
    /\ UNCHANGED <<engineVars, matchVars, text, origin, level, result>>

\* Condition::to_string
Render ==
    /\ origin = "building"
    /\ text' = to_string(tree)
    /\ origin' = "rendered"
    /\ UNCHANGED <<engineVars, matchVars, tree, level, result>>

\* str::parse::<Condition>
ParseText ==
    /\ origin \in {"typed", "derived", "rendered"}
    /\ result = NoResult
    /\ result' = from_str(text)
    /\ UNCHANGED <<engineVars, matchVars, text, tree, origin, level>>

ParseNext ==
    \/ TypeChar
    \/ DeriveFact
    \/ DeriveParen
    \/ DeriveNot
    \/ DeriveAnd
    \/ DeriveOr
    \/ DerivePad
    \/ BuildFact
    \/ BuildNot
    \/ BuildAnd
    \/ BuildOr
    \/ Render
    \/ ParseText

ParseSpec == Init /\ [][ParseNext]_vars

-----------------------------------------------------------------------------
(* The evaluator on its own: a Condition is built with the constructors   *)
(* or parsed from a text, a fact collection is put together, and          *)
(* Condition::matches is applied to the two.                              *)

\* "!(fact1 & fact2) | fact3"
ComplexText ==
    <<"!", "(">> \o fact1 \o <<" ", "&", " ">> \o fact2 \o <<")", " ", "|", " ">>
        \o fact3

\* condition texts parsed for the evaluator
ConditionTexts == {ComplexText}

\* the names a collection is put together from, for a built and for a parsed
\* Condition
CollFacts(o) ==
    IF o = "loaded" THEN {fact1, fact2, fact3} ELSE {<<"a">>, <<"b">>, <<"c">>}

\* str::parse::<Condition>().unwrap() on a condition text
LoadCondition ==
    /\ origin = "none"
    /\ \E t \in ConditionTexts :
         /\ from_str(t).ok
         /\ tree' = from_str(t).val
    /\ origin' = "loaded"
    /\ UNCHANGED <<engineVars, matchVars, text, level, result>>

\* one more String in the Vec<String> of facts
Collect ==
    /\ origin \in {"building", "loaded"}
    /\ verdict = NoVerdict
    /\ Len(coll) < MaxColl
    /\ \E f \in CollFacts(origin) : coll' = Append(coll, f)
    /\ UNCHANGED <<engineVars, parseVars, verdict>>

\* Condition::matches(&self, facts: &Vec<String>): the collection is only read
Match ==
    /\ origin \in {"building", "loaded"}
    /\ verdict = NoVerdict
    /\ verdict' = [done |-> TRUE, value |-> matches(tree, coll)]
    /\ origin' = "matched"
    /\ UNCHANGED <<engineVars, text, tree, level, result, coll>>

MatchNext ==
    \/ BuildFact
    \/ BuildNot
    \/ BuildAnd
    \/ BuildOr
    \/ LoadCondition
    \/ Collect
    \/ Match

MatchSpec == Init /\ [][MatchNext]_vars

-----------------------------------------------------------------------------
(* Properties of the deduction run *)

Running == pc \in {"rule", "output"}

AtCycleEnd == pc = "rule" /\ i > Len(rules)

FactSet(fs) == {fs[n] : n \in DOMAIN fs}

IsPrefix(s, t) == Len(s) <= Len(t) /\ \A n \in DOMAIN s : s[n] = t[n]

RECURSIVE NotFree(_)
NotFree(c) ==
    CASE c.tag = "Fact" -> TRUE
      [] c.tag = "Not"  -> FALSE
      [] OTHER          -> NotFree(c.lhs) /\ NotFree(c.rhs)

RECURSIVE CondFacts(_)
CondFacts(c) ==
    CASE c.tag = "Fact" -> {c.name}
      [] c.tag = "Not"  -> CondFacts(c.inner)
      [] OTHER          -> CondFacts(c.lhs) \cup CondFacts(c.rhs)

\* the distinct fact names mentioned across all rule conditions and outputs
MentionedFacts(rs) ==
    UNION {CondFacts(rs[n].condition) \cup FactSet(rs[n].output) : n \in DOMAIN rs}

Rule(condition, output) == add_rule(<<>>, condition, output)[1]

Scenario1Rules == <<Rule(fact1, fact2), Rule(fact2, fact3), Rule(fact4, fact5)>>

Scenario2Rules == <<Rule(fact5, fact6)>>

\* The step-by-step run and the functions step_forward/deduce agree.
RunAgreesWithDeduce ==
    pc = "done" =>
        LET d == deduce(Facts_new(seed), rules) IN
        facts = d.facts /\ step = d.step

\* C1 (as stated): when deduce has returned, every permutation of the rule
\* list, run on the same initial facts, ends with the same set of facts,
\* whatever the conditions are (NOT included).
C1_OrderIndependent ==
    pc = "done" =>
        \A rs \in Shuffles(rules) :
            FactSet(deduce(Facts_new(seed), rs).facts) = FactSet(facts)

\* C1 (amended): when no rule condition contains NOT, every permutation of
\* the rule list, run on the same initial facts, ends with the same set of
\* facts.
C1_OrderIndependentWithoutNot ==
    (pc = "done" /\ \A n \in DOMAIN rules : NotFree(rules[n].condition)) =>
        \A rs \in Shuffles(rules) :
            FactSet(deduce(Facts_new(seed), rs).facts) = FactSet(facts)

\* C1 witness: a finished run over NOT-free rules (one of them with AND/OR)
\* that derived facts and for which some permutation of the rules reports a
\* different cycle count.
C1_Witness ==
    /\ pc = "done"
    /\ \A n \in DOMAIN rules : NotFree(rules[n].condition)
    /\ \E n \in DOMAIN rules : rules[n].condition.tag = "Or"
    /\ Len(facts) > Len(seed)
    /\ \E rs \in Shuffles(rules) : deduce(Facts_new(seed), rs).step # step

\* C2: when step_forward is about to return, every output of every rule whose
\* condition matched when it was tested in this cycle is in working memory.
C2_AllOutputsRemembered ==
    AtCycleEnd =>
        \A r \in tested : \A o \in DOMAIN rules[r].output :
            recall(facts, rules[r].output[o])

\* C3 (as stated): scenario 1 ends with fact1, fact2, fact3, without fact5,
\* and a cycle count of 2.
C3_Scenario1TwoCycles ==
    (pc = "done" /\ rules = Scenario1Rules /\ seed = <<fact1>>) =>
        /\ recall(facts, fact1) /\ recall(facts, fact2) /\ recall(facts, fact3)
        /\ ~recall(facts, fact5)
        /\ step = 2

\* C3 (amended): scenario 1 ends with fact1, fact2, fact3, without fact5, and
\* a cycle count of 1: the first cycle derives fact2 and fact3, the second
\* adds nothing.
C3_Scenario1OneCycle ==
    (pc = "done" /\ rules = Scenario1Rules /\ seed = <<fact1>>) =>
        /\ recall(facts, fact1) /\ recall(facts, fact2) /\ recall(facts, fact3)
        /\ ~recall(facts, fact5)
        /\ step = 1
        /\ cycles = 2

\* C3 witness: deduce has returned in scenario 1.
C3_Witness == pc = "done" /\ rules = Scenario1Rules /\ seed = <<fact1>>

\* C4: while deduce runs, every cycle that returned was counted and
\* lengthened working memory; when deduce returns, the count is the number of
\* cycles that lengthened working memory, exactly one cycle (the last) did
\* not, and a count of 0 leaves working memory as it was seeded.
C4_CountsGrowingCycles ==
    /\ Running => (step = cycles /\ grown = cycles)
    /\ pc = "done" =>
         /\ step = grown
         /\ cycles = grown + 1
         /\ (step = 0 => facts = Facts_new(seed))

\* C4 witness: scenario 2 has returned 0 with working memory unchanged.
C4_Witness ==
    /\ pc = "done"
    /\ rules = Scenario2Rules
    /\ seed = <<fact1>>
    /\ step = 0
    /\ facts = <<fact1>>

\* C5: the cycle count never exceeds the number k of distinct fact names the
\* rules mention, at most k + 1 cycles are run, and every deduction that was
\* started returns.
C5_TerminatesWithinBound ==
    /\ [](step <= Cardinality(MentionedFacts(rules))
          /\ cycles <= Cardinality(MentionedFacts(rules)) + 1)
    /\ (Running ~> pc = "done")

\* C5 witness: a run that returned after exactly k successful cycles.
C5_Witness ==
    /\ pc = "done"
    /\ step >= 1
    /\ step = Cardinality(MentionedFacts(rules))

\* C6: during a run the seed is a prefix of working memory, and every step of
\* the run leaves the old working memory a prefix of the new one.
C6_AppendOnly ==
    /\ []((Running \/ pc = "done") => IsPrefix(Facts_new(seed), facts))
    /\ [][Running => IsPrefix(facts, facts')]_vars

\* C6 witness: a run seeded with two facts that has appended two more.
C6_Witness ==
    /\ pc = "done"
    /\ Len(seed) = 2
    /\ Len(facts) >= Len(seed) + 2

\* C7: working memory never holds the same fact name twice.
C7_NoDuplicates ==
    \A a, b \in DOMAIN facts : a # b => facts[a] # facts[b]

-----------------------------------------------------------------------------
(* Properties of the parser *)

Parsed == result # NoResult

\* C8: parsing the rendering of a Condition succeeds and yields that Condition.
C8_RoundTrip ==
    (origin = "rendered" /\ Parsed) => (result.ok /\ result.val = tree)

\* C8 witness: the Condition of test_condition_to_string, an And over an Or
\* over a Not, rendered and parsed back.
C8_Witness ==
    /\ origin = "rendered"
    /\ Parsed
    /\ tree = And(Fact(<<"a">>), Or(Fact(<<"b">>), Not(Fact(<<"c">>))))
    /\ text = <<"(", "a", " ", "&", " ", "(", "b", " ", "|", " ", "!", "c", ")", ")">>

\* C9: parsing a text derived by the grammar succeeds, consumes it all and
\* yields the tree its derivation denotes (left-nested chains, & tighter than
\* |, ! tightest, parentheses overriding).
C9_GrammarTree ==
    (origin = "derived" /\ Parsed) =>
        (result.ok /\ result.val = tree /\ result.rest = <<>>)

\* C9 witness: "a|b&c" has been parsed as Or(a, And(b, c)).
C9_Witness ==
    /\ origin = "derived"
    /\ Parsed
    /\ text = <<"a", "|", "b", "&", "c">>
    /\ result.ok
    /\ result.val = Or(Fact(<<"a">>), And(Fact(<<"b">>), Fact(<<"c">>)))

\* the part of the text in front of the point where the parser failed
Before(s, at) == SubSeq(s, 1, Len(s) - Len(at))

\* the last character of s that is not whitespace, "" when there is none
RECURSIVE LastToken(_)
LastToken(s) ==
    IF s = <<>> THEN ""
    ELSE IF is_whitespace(s[Len(s)]) THEN LastToken(SubSeq(s, 1, Len(s) - 1))
    ELSE s[Len(s)]

\* after s the grammar wants a primary: s is blank or ends in an operator or '('
PrimaryExpected(s) == LastToken(s) \in {"", "&", "|", "!", "("}

Count(s, c) == Cardinality({n \in DOMAIN s : s[n] = c})

\* s has a '(' whose ')' has not come
ParenOpen(s) == Count(s, "(") > Count(s, ")")

Failed == origin = "typed" /\ Parsed /\ ~result.ok

\* C10 (as stated): a failed parse reports UnexpectedEnd when the input ends
\* where a primary is expected, ExpectedFact when a primary is expected and
\* the next character cannot start one, UnclosedParen whenever the input ends
\* with a '(' still open; and it returns no Condition.
C10_ErrorKinds ==
    Failed =>
        LET before == Before(text, result.at) IN
        /\ (result.at = <<>> /\ PrimaryExpected(before))
               => result.err = UnexpectedEnd
        /\ (result.at # <<>> /\ PrimaryExpected(before)
                /\ ~is_fact_char(Head(result.at)))
               => result.err = ExpectedFact
        /\ (result.at = <<>> /\ ParenOpen(before))
               => result.err = UnclosedParen
        /\ "val" \notin DOMAIN result

\* C10 (amended): as C10, but UnclosedParen is reported when the input ends
\* with a '(' still open after a complete operand; when it ends with a '('
\* still open where a primary is expected, UnexpectedEnd is reported.
C10_ErrorKindsOperandFirst ==
    Failed =>
        LET before == Before(text, result.at) IN
        /\ (result.at = <<>> /\ PrimaryExpected(before))
               => result.err = UnexpectedEnd
        /\ (result.at # <<>> /\ PrimaryExpected(before)
                /\ ~is_fact_char(Head(result.at)))
               => result.err = ExpectedFact
        /\ (result.at = <<>> /\ ParenOpen(before) /\ ~PrimaryExpected(before))
               => result.err = UnclosedParen
        /\ "val" \notin DOMAIN result

\* C10 witness: "(a&b" has failed with UnclosedParen at the end of the input.
C10_Witness ==
    /\ Failed
    /\ text = <<"(", "a", "&", "b">>
    /\ result.at = <<>>
    /\ result.err = UnclosedParen

-----------------------------------------------------------------------------
(* Properties of the evaluator *)

\* the boolean value of a Condition over a set of facts
RECURSIVE Holds(_, _)
Holds(c, S) ==
    IF c.tag = "Fact" THEN c.name \in S
    ELSE IF c.tag = "Not" THEN Holds(c.inner, S) = FALSE
    ELSE IF c.tag = "And" THEN \A x \in {c.lhs, c.rhs} : Holds(x, S)
    ELSE \E x \in {c.lhs, c.rhs} : Holds(x, S)

ComplexTree == Or(Not(And(Fact(fact1), Fact(fact2))), Fact(fact3))

\* C11: matches returns the boolean value of the tree over the set of the
\* collection's facts and leaves the collection as it was; on
\* "!(fact1 & fact2) | fact3" it is true for {fact3} and for {}, false for
\* {fact1, fact2}.
C11_MatchesIsBooleanValue ==
    /\ [](verdict.done => verdict.value = Holds(tree, FactSet(coll)))
    /\ []((verdict.done /\ tree = ComplexTree) =>
            /\ FactSet(coll) = {fact3} => verdict.value = TRUE
            /\ FactSet(coll) = {fact1, fact2} => verdict.value = FALSE
            /\ FactSet(coll) = {} => verdict.value = TRUE)
    /\ [][verdict'.done => coll' = coll]_vars

\* C11 witness: "!(fact1 & fact2) | fact3" has been parsed and found false
\* on [fact1, fact2].
C11_Witness ==
    /\ origin = "matched"
    /\ tree = ComplexTree
    /\ coll = <<fact1, fact2>>
    /\ verdict.done
    /\ verdict.value = FALSE

-----------------------------------------------------------------------------
(* Properties of a cycle and of the final working memory *)

\* tests::test_deduce's chain with the later link first
ReverseChainRules == <<Rule(fact2, fact3), Rule(fact1, fact2)>>

FirstCycleEnd == AtCycleEnd /\ cycles = 0

\* C12: a rule is tested against working memory as it is at that moment,
\* the additions of this cycle's earlier rules included; within a cycle the
\* rules are taken in list order, each once, and a fact is only added as an
\* output of the rule whose turn it is.  So fact1 -> fact2, fact2 -> fact3 is
\* fully derived by the first cycle, while in the order fact2 -> fact3,
\* fact1 -> fact2 the first cycle derives fact2 only and fact3 comes with the
\* second.
C12_InCycleVisibility ==
    /\ [][(pc = "rule" /\ i <= Len(rules)) =>
             ((pc' = "output") <=> Holds(rules[i].condition, FactSet(facts)))]_vars
    /\ [][(Running /\ Running' /\ cycles' = cycles) => i' \in {i, i + 1}]_vars
    /\ [][(Running /\ facts' # facts) =>
             (pc = "output" /\ i \in tested
                 /\ facts' = Append(facts, rules[i].output[j]))]_vars
    /\ []((FirstCycleEnd /\ rules = Scenario1Rules /\ seed = <<fact1>>) =>
             (recall(facts, fact2) /\ recall(facts, fact3)))
    /\ []((FirstCycleEnd /\ rules = ReverseChainRules /\ seed = <<fact1>>) =>
             (recall(facts, fact2) /\ ~recall(facts, fact3)))
    /\ []((pc = "done" /\ rules = ReverseChainRules /\ seed = <<fact1>>) =>
             (recall(facts, fact3) /\ step = 2))

\* C12 witness: the second rule of fact1 -> fact2, fact2 -> fact3 has matched
\* in the first cycle on a fact that the first rule added in that cycle.
C12_Witness ==
    /\ pc = "output"
    /\ cycles = 0
    /\ rules = Scenario1Rules
    /\ seed = <<fact1>>
    /\ i = 2
    /\ ~Holds(rules[i].condition, FactSet(SubSeq(facts, 1, cycleLen)))
    /\ Holds(rules[i].condition, FactSet(facts))

\* C13: when deduce has returned, every output of every rule whose condition
\* matches the final working memory is in the final working memory.
C13_Fixpoint ==
    pc = "done" =>
        \A r \in DOMAIN rules :
            Holds(rules[r].condition, FactSet(facts)) =>
                FactSet(rules[r].output) \subseteq FactSet(facts)

\* C13 witness: deduce has returned after two counted cycles with a matching
\* rule of two outputs among the rules.
C13_Witness ==
    /\ pc = "done"
    /\ step >= 2
    /\ \E r \in DOMAIN rules :
         /\ Len(rules[r].output) = 2
         /\ Holds(rules[r].condition, FactSet(facts))

\* C14: a typed text is parsed to a Condition only when nothing but
\* whitespace is left of it after the expression.
C14_WholeInputConsumed ==
    (origin = "typed" /\ Parsed /\ result.ok) =>
        skip_whitespace(result.rest) = <<>>

====
